---- MODULE Spec2Model ----
(***************************************************************************)
(* Model of the File_converter core: the handler registry                  *)
(* (plugins/handler_factory.py) and the conversion orchestrator            *)
(* (core/orchestrator.py).                                                 *)
(*                                                                         *)
(* Python strings are modelled as sequences of one-character strings so    *)
(* that str.lower, str.replace, str.lstrip and os.path.splitext are        *)
(* computed the way the interpreter computes them.                         *)
(***************************************************************************)
EXTENDS Integers, Sequences, FiniteSets, TLC

(***************************************************************************)
(* Bounds of the model.                                                    *)
(***************************************************************************)
\* get_handler calls made by one thread
MaxCalls == 2
\* convert_file calls made by one caller
MaxConverts == 2
\* direct calls of a handler's read or write
MaxHandlerCalls == 1

(***************************************************************************)
(* Python string primitives.                                               *)
(***************************************************************************)
LowerMap ==
  [A |-> "a", B |-> "b", C |-> "c", D |-> "d", E |-> "e", F |-> "f",
   G |-> "g", H |-> "h", I |-> "i", J |-> "j", K |-> "k", L |-> "l",
   M |-> "m", N |-> "n", O |-> "o", P |-> "p", Q |-> "q", R |-> "r",
   S |-> "s", T |-> "t", U |-> "u", V |-> "v", W |-> "w", X |-> "x",
   Y |-> "y", Z |-> "z"]

LowerChar(c) == IF c \in DOMAIN LowerMap THEN LowerMap[c] ELSE c

\* str.lower()
lower(s) == [i \in 1..Len(s) |-> LowerChar(s[i])]

\* str.replace(old, ""): every non-overlapping occurrence, left to right
RECURSIVE replace(_, _)
replace(s, old) ==
  IF Len(s) < Len(old) THEN s
  ELSE IF SubSeq(s, 1, Len(old)) = old
       THEN replace(SubSeq(s, Len(old) + 1, Len(s)), old)
       ELSE <<Head(s)>> \o replace(Tail(s), old)

\* str.lstrip(ch)
RECURSIVE lstrip(_, _)
lstrip(s, ch) ==
  IF s # <<>> /\ Head(s) = ch THEN lstrip(Tail(s), ch) ELSE s

\* str.rfind(ch), 1-based; 0 when absent
rfind(s, ch) ==
  LET hits == {i \in 1..Len(s) : s[i] = ch}
  IN  IF hits = {} THEN 0 ELSE CHOOSE i \in hits : \A j \in hits : j <= i

\* os.path.splitext(p)[1] (genericpath._splitext with sep "/", extsep ".")
splitext(p) ==
  LET sepIndex == rfind(p, "/")
      dotIndex == rfind(p, ".")
  IN  IF dotIndex > sepIndex
         /\ \E k \in (sepIndex + 1)..(dotIndex - 1) : p[k] # "."
      THEN SubSeq(p, dotIndex, Len(p))
      ELSE <<>>

(***************************************************************************)
(* The plugin collection: the modules of the plugins package in the order  *)
(* pkgutil.iter_modules enumerates them (sorted by name), each with the    *)
(* classes inspect.getmembers finds in it (sorted by name).  rel tells how *)
(* the class relates to base_handler.FileHandler: "self", "sub"            *)
(* (a proper subclass) or "other".                                         *)
(***************************************************************************)
HandlerWord == <<"H", "a", "n", "d", "l", "e", "r">>

ClsAny == [name |-> <<"A", "n", "y">>, rel |-> "other", id |-> "typing.Any"]
ClsFileHandler ==
  [name |-> <<"F", "i", "l", "e">> \o HandlerWord, rel |-> "self",
   id |-> "base_handler.FileHandler"]
ClsLocalFileHandler ==
  [name |-> <<"F", "i", "l", "e">> \o HandlerWord, rel |-> "other",
   id |-> "csv_handler.FileHandler"]
ClsFileProcessingError ==
  [name |-> <<"F", "i", "l", "e", "P", "r", "o", "c", "e", "s", "s", "i",
              "n", "g", "E", "r", "r", "o", "r">>,
   rel |-> "other", id |-> "FileProcessingError"]
ClsUnsupportedFormatError ==
  [name |-> <<"U", "n", "s", "u", "p", "p", "o", "r", "t", "e", "d",
              "F", "o", "r", "m", "a", "t", "E", "r", "r", "o", "r">>,
   rel |-> "other", id |-> "UnsupportedFormatError"]
ClsABC == [name |-> <<"A", "B", "C">>, rel |-> "other", id |-> "abc.ABC"]
ClsBytesIO ==
  [name |-> <<"B", "y", "t", "e", "s", "I", "O">>, rel |-> "other",
   id |-> "io.BytesIO"]

Azw3Handler ==
  [name |-> <<"A", "z", "w", "3">> \o HandlerWord, rel |-> "sub",
   id |-> "Azw3Handler"]
CsvHandler ==
  [name |-> <<"C", "s", "v">> \o HandlerWord, rel |-> "other",
   id |-> "CsvHandler"]
DocxHandler ==
  [name |-> <<"D", "o", "c", "x">> \o HandlerWord, rel |-> "sub",
   id |-> "DocxHandler"]
JsonHandler ==
  [name |-> <<"J", "s", "o", "n">> \o HandlerWord, rel |-> "sub",
   id |-> "JsonHandler"]
MobiHandler ==
  [name |-> <<"M", "o", "b", "i">> \o HandlerWord, rel |-> "sub",
   id |-> "MobiHandler"]
PdfHandler ==
  [name |-> <<"P", "d", "f">> \o HandlerWord, rel |-> "sub",
   id |-> "PdfHandler"]
PptxHandler ==
  [name |-> <<"P", "p", "t", "x">> \o HandlerWord, rel |-> "sub",
   id |-> "PptxHandler"]

Plugins ==
  << [module |-> "azw3_handler", needs |-> {},
      classes |-> <<ClsAny, Azw3Handler, ClsFileHandler,
                    ClsFileProcessingError>>],
     [module |-> "base_handler", needs |-> {},
      classes |-> <<ClsABC, ClsAny, ClsFileHandler>>],
     [module |-> "csv_handler", needs |-> {},
      classes |-> <<ClsAny, CsvHandler, ClsLocalFileHandler,
                    ClsFileProcessingError>>],
     [module |-> "docx_handler", needs |-> {"docx"},
      classes |-> <<ClsAny, DocxHandler, ClsFileHandler,
                    ClsFileProcessingError>>],
     [module |-> "handler_factory", needs |-> {},
      classes |-> <<ClsFileHandler, ClsUnsupportedFormatError>>],
     [module |-> "json_handler", needs |-> {},
      classes |-> <<ClsAny, ClsFileHandler, ClsFileProcessingError,
                    JsonHandler>>],
     [module |-> "mobi_handler", needs |-> {},
      classes |-> <<ClsAny, ClsFileHandler, ClsFileProcessingError,
                    MobiHandler>>],
     [module |-> "pdf_handler", needs |-> {"PyPDF2"},
      classes |-> <<ClsAny, ClsBytesIO, ClsFileHandler,
                    ClsFileProcessingError, PdfHandler>>],
     [module |-> "pptx_handler", needs |-> {"pptx"},
      classes |-> <<ClsAny, ClsFileHandler, ClsFileProcessingError,
                    PptxHandler>>] >>

(***************************************************************************)
(* The process environment discovery runs in: whether the name "plugins"   *)
(* is importable as a top-level package (it is not when the factory was    *)
(* loaded as a sub-package of another package), and which third-party      *)
(* libraries are installed.                                                *)
(***************************************************************************)
Envs ==
  { [importable |-> TRUE,  libs |-> {}],
    [importable |-> TRUE,  libs |-> {"PyPDF2", "docx", "pptx"}],
    [importable |-> FALSE, libs |-> {"PyPDF2", "docx", "pptx"}] }

\* __import__(f"{package_name}.{module_name}", fromlist=["*"]) succeeds
ImportOK(e, unit) == e.importable /\ unit.needs \subseteq e.libs


(***************************************************************************)
(* State.                                                                  *)
(***************************************************************************)
Threads == {"t1", "t2"}
MainThread == "t1"
Callers == {"c1", "c2"}
MainCaller == "c1"

VARIABLES
  env,        \* the process environment (fixed for the process lifetime)
  _HANDLERS,  \* handler_factory._HANDLERS: format name -> handler class
  gpc,        \* get_handler: where each thread stands
  gext,       \* get_handler: the file_extension argument
  gmod,       \* _discover_handlers: index of the module being visited
  gcls,       \* _discover_handlers: index of the class being inspected
  gresult,    \* get_handler: what the last call returned or raised
  gcalls,     \* get_handler calls a thread has made
  nextObj,    \* identity of the next handler instance constructed
  issued,     \* history: the identities of the instances handed out
  scans,      \* history: discovery passes that went past the guard
  writers,    \* history: threads that have assigned into _HANDLERS
  discovered  \* history: some discovery pass has run to its end

regvars == <<env, _HANDLERS, gpc, gext, gmod, gcls, gresult, gcalls,
             nextObj, issued, scans, writers, discovered>>

VARIABLES
  fs,                \* the file system: path -> content of the existing files
  cpc,               \* convert_file: where each caller stands
  input_path,        \* convert_file: its arguments and locals
  output_path,
  input_format,
  output_format,
  reader_handler,
  writer_handler,
  intermediate_data,
  cresult,           \* convert_file: how the last call ended
  clog,              \* history: the steps the current call has executed
  cconverts,         \* convert_file calls a caller has made
  cdest,             \* history: the destination after each returned call
  cli,               \* main: how the command-line run of a caller exited
  hcall,             \* the last direct call of a handler's read or write
  hcalls             \* direct handler calls made

\* What main and the direct handler calls keep.
hvars == <<hcall, hcalls>>

cvars == <<fs, cpc, input_path, output_path, input_format, output_format,
           reader_handler, writer_handler, intermediate_data, cresult, clog,
           cconverts, cdest, cli, hvars>>

vars == <<regvars, cvars>>

NoResult == [kind |-> "none"]

\* The file extensions get_handler is called with.
ExtPdf == <<"p", "d", "f">>
ExtDocx == <<"d", "o", "c", "x">>
ExtPptx == <<"p", "p", "t", "x">>
ExtPpsx == <<"p", "p", "s", "x">>
ExtAzw3 == <<"a", "z", "w", "3">>
ExtMobi == <<"m", "o", "b", "i">>

Exts ==
  { <<"j", "s", "o", "n">>, <<"J", "S", "O", "N">>, <<"c", "s", "v">>,
    <<"x", "m", "l">>, ExtPdf, ExtDocx, ExtPptx, ExtPpsx, ExtAzw3, ExtMobi }

\* Paths convert_file is called with.
PathACsv == <<"a", ".", "c", "s", "v">>
PathMissingCsv == <<"m", "i", "s", "s", "i", "n", "g", ".", "c", "s", "v">>
PathOutJson == <<"o", "u", "t", ".", "j", "s", "o", "n">>
PathAXml == <<"a", ".", "x", "m", "l">>

SourcePaths ==
  { PathACsv, PathMissingCsv, PathAXml,
    <<"a", ".", "C", "S", "V">>,
    <<"a", ".", "p", "d", "f">>,
    <<"a">>,
    <<".", "c", "s", "v">> }

DestinationPaths ==
  { PathOutJson, PathAXml,
    <<"o", "u", "t", ".", "J", "S", "O", "N">>,
    <<"b">>,
    <<"b", ".">>,
    <<"d", ".", "v", "/", "b">> }

None == [kind |-> "None"]

NoExc ==
  [type |-> "None", args |-> <<>>, msg |-> "", cause |-> "None",
   context |-> "None"]

NoOutcome == [kind |-> "none", exc |-> NoExc]

(***************************************************************************)
(* Python values, as far as the handlers look at them.  A dict is the      *)
(* sequence of its <<key, value>> items in insertion order.                *)
(***************************************************************************)
StrV(s) == [t |-> "str", v |-> s]
IntV(digits) == [t |-> "int", v |-> digits]
NoneV == [t |-> "None", v |-> ""]
SetObj == [t |-> "set", v |-> ""]
List(items) == [t |-> "list", v |-> items]
Dict(items) == [t |-> "dict", v |-> items]

\* csv.DictReader's restkey: the object None used as a dict key.
NoneKey == "<None>"

\* str(value), which is also what csv.writer puts into a field, except
\* that it writes None as the empty field.
str(value) ==
  CASE value.t \in {"str", "int"} -> value.v
    [] value.t = "None" -> "None"
    [] value.t = "set" -> "{...}"
    [] value.t = "list" -> "[...]"
    [] value.t = "dict" -> "{...}"

\* d[k] = v
dict_set(d, k, v) ==
  IF \E i \in DOMAIN d : d[i][1] = k
  THEN [i \in DOMAIN d |-> IF d[i][1] = k THEN <<k, v>> ELSE d[i]]
  ELSE Append(d, <<k, v>>)

keys(d) == [i \in DOMAIN d |-> d[i][1]]

\* k in d
has_key(d, k) == \E i \in DOMAIN d : d[i][1] = k

\* d.get(k, default)
get(d, k, default) ==
  IF has_key(d, k)
  THEN d[CHOOSE i \in DOMAIN d : d[i][1] = k][2]
  ELSE default

(***************************************************************************)
(* File contents.  A text file is kept as what its format's parser makes   *)
(* of it: the rows of fields of CSV text, the value of JSON text.          *)
(***************************************************************************)
EmptyFile == [kind |-> "empty", body |-> <<>>]
\* bytes that are no UTF-8 text and no document of any format
Garbage == [kind |-> "garbage", body |-> <<>>]
CsvText(rows) == [kind |-> "csv", body |-> rows]
JsonText(value) == [kind |-> "json", body |-> value]
\* JSON text that stops in the middle of a value
JsonPartial == [kind |-> "json_partial", body |-> <<>>]
\* a PDF, Word, PowerPoint or e-book document and its text blocks
Document(kind, blocks) == [kind |-> kind, body |-> blocks]
Absent == [kind |-> "absent", body |-> <<>>]

\* What is at a path.
content(files, path) == IF path \in DOMAIN files THEN files[path] ELSE Absent

\* JSON values
JsonString(s) == [j |-> "string", v |-> s]
JsonNumber(digits) == [j |-> "number", v |-> digits]
JsonNull == [j |-> "null", v |-> ""]
JsonArray(items) == [j |-> "array", v |-> items]
JsonObject(members) == [j |-> "object", v |-> members]

\* The formats with a handler class, and the extension of their files.
HandlerNames == {"csv", "json", "pdf", "docx", "pptx", "azw3", "mobi"}

ExtOf(h) ==
  CASE h = "csv" -> <<"c", "s", "v">>
    [] h = "json" -> <<"j", "s", "o", "n">>
    [] h = "pdf" -> ExtPdf
    [] h = "docx" -> ExtDocx
    [] h = "pptx" -> ExtPptx
    [] h = "azw3" -> ExtAzw3
    [] h = "mobi" -> ExtMobi

PathOf(stem, ext) == stem \o <<".">> \o ext

StemA == <<"a">>
StemEmpty == <<"e", "m", "p", "t", "y">>
StemBad == <<"b", "a", "d">>
StemMissing == <<"m", "i", "s", "s", "i", "n", "g">>
StemOut == <<"o", "u", "t">>
\* a name that holds a NUL character
StemNul == <<"o", "NUL">>
StemObj == <<"o", "b", "j">>
StemMixed == <<"m", "i", "x", "e", "d">>

\* A well-formed file of each format.
SampleRows == <<<<"id", "data">>, <<"1", "sample">>, <<"2", "demo">>>>

SampleJson ==
  JsonArray(<<JsonObject(<<<<"id", JsonNumber("1")>>,
                           <<"data", JsonString("sample")>>>>),
              JsonObject(<<<<"id", JsonNumber("2")>>,
                           <<"data", JsonString("demo")>>>>)>>)

ValidContent(h) ==
  CASE h = "csv" -> CsvText(SampleRows)
    [] h = "json" -> JsonText(SampleJson)
    [] OTHER -> Document(h, <<"Hello">>)

\* The files that exist when the process starts: for every format a
\* well-formed file, an empty file and a file of garbage, and two JSON
\* files whose root is an object and a list with a scalar entry.
InitialFiles ==
  LET perFormat == { PathOf(st, ExtOf(h)) :
                       st \in {StemA, StemEmpty, StemBad}, h \in HandlerNames }
      objJson == PathOf(StemObj, ExtOf("json"))
      mixedJson == PathOf(StemMixed, ExtOf("json"))
  IN  [p \in perFormat \cup {objJson, mixedJson} |->
         IF p = objJson
         THEN JsonText(JsonObject(<<<<"id", JsonNumber("1")>>>>))
         ELSE IF p = mixedJson
         THEN JsonText(JsonArray(<<JsonObject(<<<<"id", JsonNumber("1")>>>>),
                                   JsonNumber("2")>>))
         ELSE LET h == CHOOSE x \in HandlerNames :
                         \E st \in {StemA, StemEmpty, StemBad} :
                           p = PathOf(st, ExtOf(x))
                  st == CHOOSE x \in {StemA, StemEmpty, StemBad} :
                          p = PathOf(x, ExtOf(h))
              IN  IF st = StemA THEN ValidContent(h)
                  ELSE IF st = StemEmpty THEN EmptyFile
                  ELSE Garbage]

\* No command-line run has exited; no handler has been called directly.
NotExited == [code |-> -1, stream |-> "", message |-> "", escaped |-> "None"]

NoCall ==
  [handler |-> "", op |-> "", path |-> <<>>, data |-> <<>>, cond |-> "",
   before |-> <<>>, ok |-> TRUE, value |-> NoneV, exc |-> NoExc]

Init ==
  /\ env \in Envs
  /\ _HANDLERS = <<>>
  /\ gpc = [t \in Threads |-> "idle"]
  /\ gext = [t \in Threads |-> <<>>]
  /\ gmod = [t \in Threads |-> 0]
  /\ gcls = [t \in Threads |-> 0]
  /\ gresult = [t \in Threads |-> NoResult]
  /\ gcalls = [t \in Threads |-> 0]
  /\ nextObj = 1
  /\ issued = {}
  /\ scans = 0
  /\ writers = {}
  /\ discovered = FALSE
  /\ fs = InitialFiles
  /\ cpc = [c \in Callers |-> "idle"]
  /\ input_path = [c \in Callers |-> <<>>]
  /\ output_path = [c \in Callers |-> <<>>]
  /\ input_format = [c \in Callers |-> <<>>]
  /\ output_format = [c \in Callers |-> <<>>]
  /\ reader_handler = [c \in Callers |-> None]
  /\ writer_handler = [c \in Callers |-> None]
  /\ intermediate_data = [c \in Callers |-> None]
  /\ cresult = [c \in Callers |-> NoOutcome]
  /\ clog = [c \in Callers |-> <<>>]
  /\ cconverts = [c \in Callers |-> 0]
  /\ cdest = [c \in Callers |-> <<>>]
  /\ cli = [c \in Callers |-> NotExited]
  /\ hcall = NoCall
  /\ hcalls = 0

(***************************************************************************)
(* handler_factory._discover_handlers                                      *)
(***************************************************************************)
\* name.replace("Handler", "").lower()
format_name(name) == lower(replace(name, HandlerWord))

\* The body of the loop over a module's classes: a proper subclass of
\* FileHandler is stored under its format name, overwriting any entry.
Register(h, cls) ==
  IF cls.rel = "sub"
  THEN [f \in DOMAIN h \cup {format_name(cls.name)} |->
          IF f = format_name(cls.name) THEN cls.id ELSE h[f]]
  ELSE h

\* "if _HANDLERS: return"
Populated(h) == DOMAIN h # {}

\* A whole discovery pass run without interruption from registry h.
RECURSIVE RegisterAll(_, _)
RegisterAll(h, classes) ==
  IF classes = <<>> THEN h
  ELSE RegisterAll(Register(h, Head(classes)), Tail(classes))

RECURSIVE DiscoverFrom(_, _, _)
DiscoverFrom(h, e, units) ==
  IF units = <<>> THEN h
  ELSE DiscoverFrom(IF ImportOK(e, Head(units))
                    THEN RegisterAll(h, Head(units).classes)
                    ELSE h,
                    e, Tail(units))

Discover(e) == DiscoverFrom(<<>>, e, Plugins)

\* get_handler(file_extension) is entered.
GetHandlerCall(t, ext) ==
  /\ gpc[t] = "idle"
  /\ gcalls[t] < MaxCalls
  /\ gpc' = [gpc EXCEPT ![t] = "check"]
  /\ gext' = [gext EXCEPT ![t] = ext]
  /\ gresult' = [gresult EXCEPT ![t] = NoResult]
  /\ gcalls' = [gcalls EXCEPT ![t] = @ + 1]
  /\ UNCHANGED <<env, _HANDLERS, gmod, gcls, nextObj, issued, scans, writers,
                 discovered>>
  /\ UNCHANGED cvars

\* Variant of DiscoverGuard: every call empties the registry and scans again.
DiscoverGuard_Rescan(t) ==
  /\ gpc[t] = "check"
  /\ _HANDLERS' = <<>>
  /\ gpc' = [gpc EXCEPT ![t] = "scan"]
  /\ gmod' = [gmod EXCEPT ![t] = 1]
  /\ gcls' = [gcls EXCEPT ![t] = 0]
  /\ scans' = scans + 1
  /\ UNCHANGED <<env, gext, gresult, gcalls, nextObj, issued, writers, discovered>>
  /\ UNCHANGED cvars

\* _discover_handlers is entered: the guard, then the start of the loop
\* over pkgutil.iter_modules.
DiscoverGuard(t) ==
  /\ gpc[t] = "check"
  /\ IF Populated(_HANDLERS)
     THEN /\ gpc' = [gpc EXCEPT ![t] = "lookup"]
          /\ UNCHANGED <<gmod, gcls, scans>>
     ELSE /\ gpc' = [gpc EXCEPT ![t] = "scan"]
          /\ gmod' = [gmod EXCEPT ![t] = 1]
          /\ gcls' = [gcls EXCEPT ![t] = 0]
          /\ scans' = scans + 1
  /\ UNCHANGED <<env, _HANDLERS, gext, gresult, gcalls, nextObj, issued, writers,
                 discovered>>
  /\ UNCHANGED cvars

\* The loop over the modules has run out: _discover_handlers returns.
ScanEnd(t, m) ==
  IF m > Len(Plugins)
  THEN /\ gpc' = [gpc EXCEPT ![t] = "lookup"]
       /\ gmod' = [gmod EXCEPT ![t] = 0]
       /\ gcls' = [gcls EXCEPT ![t] = 0]
       /\ discovered' = TRUE
  ELSE /\ gmod' = [gmod EXCEPT ![t] = m]
       /\ gcls' = [gcls EXCEPT ![t] = 0]
       /\ UNCHANGED <<gpc, discovered>>

\* Variant of ImportModule: a failing import ends the loop over the modules.
ImportModule_Abort(t) ==
  /\ gpc[t] = "scan"
  /\ gcls[t] = 0
  /\ LET unit == Plugins[gmod[t]]
     IN  IF ImportOK(env, unit) /\ unit.classes # <<>>
         THEN /\ gcls' = [gcls EXCEPT ![t] = 1]
              /\ UNCHANGED <<gpc, gmod, discovered>>
         ELSE ScanEnd(t, IF ImportOK(env, unit) THEN gmod[t] + 1
                         ELSE Len(Plugins) + 1)
  /\ UNCHANGED <<env, _HANDLERS, gext, gresult, gcalls, nextObj, issued, scans,
                 writers>>
  /\ UNCHANGED cvars

\* One module is imported; a failing import is swallowed and the module
\* skipped.
ImportModule(t) ==
  /\ gpc[t] = "scan"
  /\ gcls[t] = 0
  /\ LET unit == Plugins[gmod[t]]
     IN  IF ImportOK(env, unit) /\ unit.classes # <<>>
         THEN /\ gcls' = [gcls EXCEPT ![t] = 1]
              /\ UNCHANGED <<gpc, gmod, discovered>>
         ELSE ScanEnd(t, gmod[t] + 1)
  /\ UNCHANGED <<env, _HANDLERS, gext, gresult, gcalls, nextObj, issued, scans,
                 writers>>
  /\ UNCHANGED cvars

\* One class of the imported module is inspected and, if it is a handler,
\* registered.
InspectClass(t) ==
  /\ gpc[t] = "scan"
  /\ gcls[t] > 0
  /\ LET unit == Plugins[gmod[t]]
         cls == unit.classes[gcls[t]]
     IN  /\ _HANDLERS' = Register(_HANDLERS, cls)
         /\ writers' = IF cls.rel = "sub" THEN writers \cup {t} ELSE writers
         /\ IF gcls[t] < Len(unit.classes)
            THEN /\ gcls' = [gcls EXCEPT ![t] = @ + 1]
                 /\ UNCHANGED <<gpc, gmod, discovered>>
            ELSE ScanEnd(t, gmod[t] + 1)
  /\ UNCHANGED <<env, gext, gresult, gcalls, nextObj, issued, scans>>
  /\ UNCHANGED cvars

\* Variant of Resolve: the lookup key is not lower-cased.
Resolve_NoLower(h, ext, obj) ==
  IF ext \in DOMAIN h
  THEN [kind |-> "instance", cls |-> h[ext], obj |-> obj]
  ELSE [kind |-> "UnsupportedFormatError", format |-> ext]

\* handler_class = _HANDLERS.get(file_extension.lower()), then either the
\* raise or handler_class().
Resolve(h, ext, obj) ==
  IF lower(ext) \in DOMAIN h
  THEN [kind |-> "instance", cls |-> h[lower(ext)], obj |-> obj]
  ELSE [kind |-> "UnsupportedFormatError", format |-> ext]

\* Variant of Lookup: one instance is kept and returned by every call.
Lookup_Shared(t) ==
  /\ gpc[t] = "lookup"
  /\ gresult' = [gresult EXCEPT ![t] = Resolve(_HANDLERS, gext[t], 0)]
  /\ issued' = IF gresult'[t].kind = "instance"
               THEN issued \cup {gresult'[t].obj} ELSE issued
  /\ gpc' = [gpc EXCEPT ![t] = "idle"]
  /\ UNCHANGED <<env, _HANDLERS, gext, gmod, gcls, gcalls, nextObj, scans,
                 writers, discovered>>
  /\ UNCHANGED cvars

\* The lookup and the construction of the instance; they make one step,
\* since no other thread's step changes what they do.
Lookup(t) ==
  /\ gpc[t] = "lookup"
  /\ gresult' = [gresult EXCEPT ![t] = Resolve(_HANDLERS, gext[t], nextObj)]
  /\ nextObj' = IF gresult'[t].kind = "instance" THEN nextObj + 1 ELSE nextObj
  /\ issued' = IF gresult'[t].kind = "instance"
               THEN issued \cup {gresult'[t].obj} ELSE issued
  /\ gpc' = [gpc EXCEPT ![t] = "idle"]
  /\ UNCHANGED <<env, _HANDLERS, gext, gmod, gcls, gcalls, scans, writers,
                 discovered>>
  /\ UNCHANGED cvars

GetHandlerStep(t) ==
  \/ \E ext \in Exts : GetHandlerCall(t, ext)
  \/ DiscoverGuard(t)
  \/ ImportModule(t)
  \/ InspectClass(t)
  \/ Lookup(t)

\* Threads of one process calling get_handler concurrently.
Next == \E t \in Threads : GetHandlerStep(t)

Spec == Init /\ [][Next]_vars

\* One thread calling get_handler again and again.
NextSeq == GetHandlerStep(MainThread)

SpecSeq == Init /\ [][NextSeq]_vars

(***************************************************************************)
(* core/orchestrator.py.  The module imports get_handler and the exception *)
(* classes and then defines classes and a get_handler of the same names;   *)
(* convert_file binds to these later definitions.                          *)
(***************************************************************************)
Exc(type, args, msg) ==
  [type |-> type, args |-> args, msg |-> msg, cause |-> "None",
   context |-> "None"]

\* Calling a class declared "class X(Exception): pass": BaseException
\* accepts any positional arguments and rejects keyword arguments.
NewException(type, positional, msg, keywords) ==
  IF keywords
  THEN [ok |-> FALSE,
        exc |-> Exc("TypeError", <<>>, "takes no keyword arguments")]
  ELSE [ok |-> TRUE, exc |-> Exc(type, positional, msg)]

\* orchestrator.FileHandler, the class of every handler get_handler returns
StandInHandler == [kind |-> "instance", cls |-> "orchestrator.FileHandler"]

\* FileHandler(): the instance get_handler constructs and returns
Constructed(handler, obj) ==
  [kind |-> handler.kind, cls |-> handler.cls, obj |-> obj]

\* orchestrator.FileHandler.read: opens nothing and returns fixed records
SampleData == <<[id |-> 1, data |-> "sample"], [id |-> 2, data |-> "demo"]>>

read(handler, file_path, files) == [ok |-> TRUE, value |-> SampleData]

\* orchestrator.FileHandler.write: prints, creates no file
write(handler, file_path, data, files) == [ok |-> TRUE, files |-> files]

\* orchestrator.get_handler
get_handler(ext) ==
  IF ext \in {<<"c", "s", "v">>, <<"j", "s", "o", "n">>}
  THEN [ok |-> TRUE, value |-> StandInHandler]
  ELSE [ok |-> FALSE,
        exc |-> NewException("UnsupportedFormatError", <<ext>>,
                             "No handler for", FALSE).exc]

\* input_ext.lstrip('.').lower() of os.path.splitext(path)
FormatOf(path) == lower(lstrip(splitext(path), "."))

\* The two except clauses of convert_file: either builds
\* ConversionError(from_format=..., to_format=..., message=...) and raises it
\* "from e".  The exception that leaves convert_file when e was raised in
\* the try block.
Handled(e, from_format, to_format) ==
  LET msg == IF e.type \in {"UnsupportedFormatError", "FileProcessingError"}
             THEN "A handler error occurred"
             ELSE "An unexpected error occurred"
      made == NewException("ConversionError", <<from_format, to_format>>,
                           msg, TRUE)
  IN  IF made.ok
      THEN [made.exc EXCEPT !.cause = e.type, !.context = e.type]
      ELSE [made.exc EXCEPT !.context = e.type]

Raised(e) == [kind |-> "raised", exc |-> e]

\* convert_file(input_path, output_path) is entered.
ConvertCall(c, src, dst) ==
  /\ cpc[c] = "idle"
  /\ cconverts[c] < MaxConverts
  /\ cconverts' = [cconverts EXCEPT ![c] = @ + 1]
  /\ cpc' = [cpc EXCEPT ![c] = "derive"]
  /\ input_path' = [input_path EXCEPT ![c] = src]
  /\ output_path' = [output_path EXCEPT ![c] = dst]
  /\ input_format' = [input_format EXCEPT ![c] = <<>>]
  /\ output_format' = [output_format EXCEPT ![c] = <<>>]
  /\ reader_handler' = [reader_handler EXCEPT ![c] = None]
  /\ writer_handler' = [writer_handler EXCEPT ![c] = None]
  /\ intermediate_data' = [intermediate_data EXCEPT ![c] = None]
  /\ cresult' = [cresult EXCEPT ![c] = NoOutcome]
  /\ clog' = [clog EXCEPT ![c] = <<>>]
  /\ UNCHANGED fs
  /\ cli' = [cli EXCEPT ![c] = NotExited]
  /\ UNCHANGED <<cdest, hvars>>
  /\ UNCHANGED regvars

\* Variant of DeriveFormats: the formats are kept in module-level names
\* shared by every caller.
DeriveFormats_Global(c) ==
  /\ cpc[c] = "derive"
  /\ clog' = [clog EXCEPT ![c] = Append(@, "derive")]
  /\ LET inf == FormatOf(input_path[c])
         outf == FormatOf(output_path[c])
         e == NewException("ConversionError", <<inf, outf>>,
                           "Could not determine file formats from paths.",
                           FALSE).exc
     IN  /\ input_format' = [x \in Callers |-> inf]
         /\ output_format' = [x \in Callers |-> outf]
         /\ IF inf = <<>> \/ outf = <<>>
            THEN /\ cresult' = [cresult EXCEPT ![c] = Raised(Handled(e, inf, outf))]
                 /\ cpc' = [cpc EXCEPT ![c] = "idle"]
            ELSE /\ cpc' = [cpc EXCEPT ![c] = "resolve_reader"]
                 /\ UNCHANGED cresult
  /\ UNCHANGED <<fs, input_path, output_path, reader_handler, writer_handler,
                 intermediate_data, cconverts>>
  /\ UNCHANGED <<cdest, cli, hvars>>
  /\ UNCHANGED regvars


\* 1. Determine file formats from extensions.
DeriveFormats(c) ==
  /\ cpc[c] = "derive"
  /\ clog' = [clog EXCEPT ![c] = Append(@, "derive")]
  /\ LET inf == FormatOf(input_path[c])
         outf == FormatOf(output_path[c])
         e == NewException("ConversionError", <<inf, outf>>,
                           "Could not determine file formats from paths.",
                           FALSE).exc
     IN  /\ input_format' = [input_format EXCEPT ![c] = inf]
         /\ output_format' = [output_format EXCEPT ![c] = outf]
         /\ IF inf = <<>> \/ outf = <<>>
            THEN /\ cresult' = [cresult EXCEPT ![c] = Raised(Handled(e, inf, outf))]
                 /\ cpc' = [cpc EXCEPT ![c] = "idle"]
            ELSE /\ cpc' = [cpc EXCEPT ![c] = "resolve_reader"]
                 /\ UNCHANGED cresult
  /\ UNCHANGED <<fs, input_path, output_path, reader_handler, writer_handler,
                 intermediate_data, cconverts>>
  /\ UNCHANGED <<cdest, cli, hvars>>
  /\ UNCHANGED regvars

\* 2. reader_handler = get_handler(input_format)
ResolveReader(c) ==
  /\ cpc[c] = "resolve_reader"
  /\ clog' = [clog EXCEPT ![c] = Append(@, "resolve_reader")]
  /\ LET r == get_handler(input_format[c])
     IN  IF r.ok
         THEN /\ reader_handler' = [reader_handler EXCEPT ![c] =
                                       Constructed(r.value, nextObj)]
              /\ nextObj' = nextObj + 1
              /\ issued' = issued \cup {nextObj}
              /\ cpc' = [cpc EXCEPT ![c] = "resolve_writer"]
              /\ UNCHANGED cresult
         ELSE /\ cresult' = [cresult EXCEPT ![c] =
                   Raised(Handled(r.exc, input_format[c], output_format[c]))]
              /\ cpc' = [cpc EXCEPT ![c] = "idle"]
              /\ UNCHANGED <<reader_handler, nextObj, issued>>
  /\ UNCHANGED <<fs, input_path, output_path, input_format, output_format,
                 writer_handler, intermediate_data, cconverts>>
  /\ UNCHANGED <<cdest, cli, hvars>>
  /\ UNCHANGED <<env, _HANDLERS, gpc, gext, gmod, gcls, gresult, gcalls, scans,
                 writers, discovered>>

\* Variant of ResolveWriter: a failed resolution is swallowed and the call
\* goes on to read.
ResolveWriter_Swallow(c) ==
  /\ cpc[c] = "resolve_writer"
  /\ clog' = [clog EXCEPT ![c] = Append(@, "resolve_writer")]
  /\ LET r == get_handler(output_format[c])
     IN  /\ writer_handler' = [writer_handler EXCEPT ![c] =
                IF r.ok THEN Constructed(r.value, nextObj) ELSE None]
         /\ nextObj' = IF r.ok THEN nextObj + 1 ELSE nextObj
         /\ issued' = IF r.ok THEN issued \cup {nextObj} ELSE issued
  /\ cpc' = [cpc EXCEPT ![c] = "read"]
  /\ UNCHANGED <<fs, input_path, output_path, input_format, output_format,
                 reader_handler, intermediate_data, cconverts, cresult>>
  /\ UNCHANGED <<cdest, cli, hvars>>
  /\ UNCHANGED <<env, _HANDLERS, gpc, gext, gmod, gcls, gresult, gcalls, scans,
                 writers, discovered>>

\*    writer_handler = get_handler(output_format)
ResolveWriter(c) ==
  /\ cpc[c] = "resolve_writer"
  /\ clog' = [clog EXCEPT ![c] = Append(@, "resolve_writer")]
  /\ LET r == get_handler(output_format[c])
     IN  IF r.ok
         THEN /\ writer_handler' = [writer_handler EXCEPT ![c] =
                                       Constructed(r.value, nextObj)]
              /\ nextObj' = nextObj + 1
              /\ issued' = issued \cup {nextObj}
              /\ cpc' = [cpc EXCEPT ![c] = "read"]
              /\ UNCHANGED cresult
         ELSE /\ cresult' = [cresult EXCEPT ![c] =
                   Raised(Handled(r.exc, input_format[c], output_format[c]))]
              /\ cpc' = [cpc EXCEPT ![c] = "idle"]
              /\ UNCHANGED <<writer_handler, nextObj, issued>>
  /\ UNCHANGED <<fs, input_path, output_path, input_format, output_format,
                 reader_handler, intermediate_data, cconverts>>
  /\ UNCHANGED <<cdest, cli, hvars>>
  /\ UNCHANGED <<env, _HANDLERS, gpc, gext, gmod, gcls, gresult, gcalls, scans,
                 writers, discovered>>

\* 3. intermediate_data = reader_handler.read(input_path)
Read(c) ==
  /\ cpc[c] = "read"
  /\ clog' = [clog EXCEPT ![c] = Append(@, "read")]
  /\ LET r == read(reader_handler[c], input_path[c], fs)
     IN  IF r.ok
         THEN /\ intermediate_data' = [intermediate_data EXCEPT ![c] = r.value]
              /\ cpc' = [cpc EXCEPT ![c] = "write"]
              /\ UNCHANGED cresult
         ELSE /\ cresult' = [cresult EXCEPT ![c] =
                   Raised(Handled(r.exc, input_format[c], output_format[c]))]
              /\ cpc' = [cpc EXCEPT ![c] = "idle"]
              /\ UNCHANGED intermediate_data
  /\ UNCHANGED <<fs, input_path, output_path, input_format, output_format,
                 reader_handler, writer_handler, cconverts>>
  /\ UNCHANGED <<cdest, cli, hvars>>
  /\ UNCHANGED regvars

\* Variant of Write: the writer is handed the records without the first.
Write_Trimmed(c) ==
  /\ cpc[c] = "write"
  /\ clog' = [clog EXCEPT ![c] = Append(@, "write")]
  /\ LET passed == Tail(intermediate_data[c])
         r == write(writer_handler[c], output_path[c], passed, fs)
     IN  /\ fs' = r.files
         /\ cresult' = [cresult EXCEPT ![c] =
               IF r.ok THEN [kind |-> "returned", exc |-> NoExc]
               ELSE Raised(Handled(r.exc, input_format[c], output_format[c]))]
         /\ cdest' = [cdest EXCEPT ![c] =
               IF r.ok
               THEN Append(@, [src |-> input_path[c], dst |-> output_path[c],
                               source |-> content(r.files, input_path[c]),
                               written |-> content(r.files, output_path[c]),
                               passed |-> passed])
               ELSE @]
  /\ cpc' = [cpc EXCEPT ![c] = "idle"]
  /\ UNCHANGED <<input_path, output_path, input_format, output_format,
                 reader_handler, writer_handler, intermediate_data, cconverts>>
  /\ UNCHANGED <<cli, hvars>>
  /\ UNCHANGED regvars

\* 4. writer_handler.write(output_path, intermediate_data), then the return
Write(c) ==
  /\ cpc[c] = "write"
  /\ clog' = [clog EXCEPT ![c] = Append(@, "write")]
  /\ LET r == write(writer_handler[c], output_path[c], intermediate_data[c], fs)
     IN  /\ fs' = r.files
         /\ cresult' = [cresult EXCEPT ![c] =
               IF r.ok THEN [kind |-> "returned", exc |-> NoExc]
               ELSE Raised(Handled(r.exc, input_format[c], output_format[c]))]
         /\ cdest' = [cdest EXCEPT ![c] =
               IF r.ok
               THEN Append(@, [src |-> input_path[c], dst |-> output_path[c],
                               source |-> content(r.files, input_path[c]),
                               written |-> content(r.files, output_path[c]),
                               passed |-> intermediate_data[c]])
               ELSE @]
  /\ cpc' = [cpc EXCEPT ![c] = "idle"]
  /\ UNCHANGED <<input_path, output_path, input_format, output_format,
                 reader_handler, writer_handler, intermediate_data, cconverts>>
  /\ UNCHANGED <<cli, hvars>>
  /\ UNCHANGED regvars

ConvertStep(c) ==
  \/ \E src \in SourcePaths, dst \in DestinationPaths : ConvertCall(c, src, dst)
  \/ DeriveFormats(c)
  \/ ResolveReader(c)
  \/ ResolveWriter(c)
  \/ Read(c)
  \/ Write(c)

\* One caller making its calls one after the other.
NextConvert == ConvertStep(MainCaller)

SpecConvert == Init /\ [][NextConvert]_vars

\* convert_file run from entry to exit with nothing in between: the
\* outcome of the call and the file system it leaves.
convert_file(src, dst, files) ==
  LET inf == FormatOf(src)
      outf == FormatOf(dst)
      fail(e, fls) == [outcome |-> Raised(Handled(e, inf, outf)), files |-> fls]
      rh == get_handler(inf)
      wh == get_handler(outf)
      rd == read(rh.value, src, files)
      wr == write(wh.value, dst, rd.value, files)
  IN  IF inf = <<>> \/ outf = <<>>
      THEN fail(NewException("ConversionError", <<inf, outf>>,
                             "Could not determine file formats from paths.",
                             FALSE).exc, files)
      ELSE IF ~rh.ok THEN fail(rh.exc, files)
      ELSE IF ~wh.ok THEN fail(wh.exc, files)
      ELSE IF ~rd.ok THEN fail(rd.exc, files)
      ELSE IF ~wr.ok THEN fail(wr.exc, wr.files)
      ELSE [outcome |-> [kind |-> "returned", exc |-> NoExc],
            files |-> wr.files]

\* Two callers (threads of one process), each making one convert_file
\* call; the steps of the two calls interleave freely.
FirstConvertCall(c, src, dst) ==
  /\ cconverts[c] = 0
  /\ ConvertCall(c, src, dst)

(***************************************************************************)
(* main.py: one command-line run calls convert_file with the two paths of  *)
(* its arguments and ends the process.                                     *)
(***************************************************************************)
\* The exception classes that do not derive from Exception.
BaseExceptionOnly == {"KeyboardInterrupt", "SystemExit", "GeneratorExit"}

\* Variant of main_handle without the last clause "except Exception".
main_handle_NoCatchAll(outcome) ==
  IF outcome.kind = "returned"
  THEN [code |-> 0, stream |-> "stdout", message |-> "Success!",
        escaped |-> "None"]
  ELSE IF outcome.exc.type \in {"ConversionError", "UnsupportedFormatError"}
  THEN [code |-> 1, stream |-> "stderr",
        message |-> "[ERROR] Conversion failed", escaped |-> "None"]
  ELSE IF outcome.exc.type = "FileNotFoundError"
  THEN [code |-> 1, stream |-> "stderr",
        message |-> "[ERROR] Input file not found", escaped |-> "None"]
  ELSE [code |-> 1, stream |-> "stderr", message |-> "Traceback",
        escaped |-> outcome.exc.type]

\* The try statement of main around convert_file: the exit code of the
\* process, what it printed where, and the exception that left main.
main_handle(outcome) ==
  IF outcome.kind = "returned"
  THEN [code |-> 0, stream |-> "stdout", message |-> "Success!",
        escaped |-> "None"]
  ELSE IF outcome.exc.type \in {"ConversionError", "UnsupportedFormatError"}
  THEN [code |-> 1, stream |-> "stderr",
        message |-> "[ERROR] Conversion failed", escaped |-> "None"]
  ELSE IF outcome.exc.type = "FileNotFoundError"
  THEN [code |-> 1, stream |-> "stderr",
        message |-> "[ERROR] Input file not found", escaped |-> "None"]
  ELSE IF outcome.exc.type \notin BaseExceptionOnly
  THEN [code |-> 1, stream |-> "stderr",
        message |-> "[ERROR] An unexpected error occurred",
        escaped |-> "None"]
  ELSE [code |-> 1, stream |-> "stderr", message |-> "Traceback",
        escaped |-> outcome.exc.type]

\* main parses its arguments and calls convert_file; a caller starts a
\* run when its previous run has exited.
MainCall(c, src, dst) ==
  /\ cconverts[c] = 0 \/ cli[c] # NotExited
  /\ ConvertCall(c, src, dst)

\* The imports at the top of main.py fail ("from core.orchestrator import
\* convert_file" runs orchestrator's relative import of ..plugins with core
\* as a top-level package; "from orchestrator import ..." needs
\* orchestrator.py on the module path): the run ends with the traceback of
\* the ImportError before main is entered and convert_file is not called.
MainImportError(c) ==
  /\ cpc[c] = "idle"
  /\ cconverts[c] = 0 \/ cli[c] # NotExited
  /\ cconverts[c] < MaxConverts
  /\ cconverts' = [cconverts EXCEPT ![c] = @ + 1]
  /\ cresult' = [cresult EXCEPT ![c] = NoOutcome]
  /\ clog' = [clog EXCEPT ![c] = <<>>]
  /\ cli' = [cli EXCEPT ![c] =
               [code |-> 1, stream |-> "stderr", message |-> "Traceback",
                escaped |-> "ImportError"]]
  /\ UNCHANGED <<fs, cpc, input_path, output_path, input_format,
                 output_format, reader_handler, writer_handler,
                 intermediate_data, cdest, hvars>>
  /\ UNCHANGED regvars

\* convert_file has returned or raised: main prints and the process exits.
MainExit(c) ==
  /\ cpc[c] = "idle"
  /\ cresult[c].kind # "none"
  /\ cli[c] = NotExited
  /\ cli' = [cli EXCEPT ![c] = main_handle(cresult[c])]
  /\ UNCHANGED <<fs, cpc, input_path, output_path, input_format,
                 output_format, reader_handler, writer_handler,
                 intermediate_data, cresult, clog, cconverts, cdest, hvars>>
  /\ UNCHANGED regvars

CliStep(c) ==
  \/ \E src \in SourcePaths, dst \in DestinationPaths : MainCall(c, src, dst)
  \/ DeriveFormats(c)
  \/ ResolveReader(c)
  \/ ResolveWriter(c)
  \/ Read(c)
  \/ Write(c)
  \/ MainExit(c)
  \/ MainImportError(c)

NextCli == CliStep(MainCaller)

SpecCli == Init /\ [][NextCli]_vars

(***************************************************************************)
(* The handler classes of the plugins package, called directly.  A call    *)
(* runs in a condition of its surroundings:                                *)
(*   "ok"        nothing is in the way                                     *)
(*   "denied"    the operating system refuses to open the path             *)
(*   "nolib"     reportlab (PDF) or ebooklib/bs4 (e-books) is not installed*)
(*   "notool"    the ebook-convert program is not installed                *)
(*   "toolfails" ebook-convert exits with a non-zero code                  *)
(*   "timeout"   ebook-convert runs into subprocess.run's timeout          *)
(***************************************************************************)
\* core.exceptions.FileProcessingError(file_path, message)
FileProcessingError(file_path, message) ==
  Exc("FileProcessingError", <<file_path>>, message)

\* csv_handler.FileProcessingError(path, msg), a class of its own
CsvFileProcessingError(path, msg) ==
  Exc("csv_handler.FileProcessingError", <<path>>, msg)

ValueError(msg) == Exc("ValueError", <<>>, msg)

returned(value, files) ==
  [ok |-> TRUE, value |-> value, exc |-> NoExc, files |-> files]

raised(e, files) == [ok |-> FALSE, value |-> NoneV, exc |-> e, files |-> files]

\* The file system after path was written with a content.
put(files, path, c) ==
  [q \in DOMAIN files \cup {path} |-> IF q = path THEN c ELSE files[q]]

HasNul(path) == \E i \in DOMAIN path : path[i] = "NUL"

\* open(path, mode): the exception it raises, or "None".
open_error(path, files, mode, cond) ==
  IF HasNul(path) THEN "ValueError"
  ELSE IF cond = "denied" THEN "PermissionError"
  ELSE IF mode = "r" /\ path \notin DOMAIN files THEN "FileNotFoundError"
  ELSE "None"

\* s.replace(old, new)
RECURSIVE str_replace(_, _, _)
str_replace(s, old, new) ==
  IF Len(s) < Len(old) THEN s
  ELSE IF SubSeq(s, 1, Len(old)) = old
       THEN new \o str_replace(SubSeq(s, Len(old) + 1, Len(s)), old, new)
       ELSE <<s[1]>> \o str_replace(Tail(s), old, new)

(* csv_handler.CsvHandler *)
\* csv.DictReader: one row as a dict over the field names
RECURSIVE row_items(_, _, _, _)
row_items(fieldnames, row, i, d) ==
  IF i > Len(fieldnames) THEN d
  ELSE row_items(fieldnames, row, i + 1,
                 dict_set(d, fieldnames[i],
                          IF i <= Len(row) THEN StrV(row[i]) ELSE NoneV))

row_dict(fieldnames, row) ==
  LET d == row_items(fieldnames, row, 1, <<>>)
  IN  Dict(IF Len(fieldnames) < Len(row)
           THEN dict_set(d, NoneKey,
                         List([i \in 1..(Len(row) - Len(fieldnames)) |->
                                 StrV(row[Len(fieldnames) + i])]))
           ELSE d)

\* list(csv.DictReader(csvfile)): the first row names the fields, blank
\* rows are skipped
DictReader(rows) ==
  IF rows = <<>> THEN <<>>
  ELSE LET body == SelectSeq(Tail(rows), LAMBDA r : r # <<>>)
       IN  [i \in DOMAIN body |-> row_dict(rows[1], body[i])]

CsvHandler_read(file_path, files, cond) ==
  LET err == open_error(file_path, files, "r", cond)
  IN  IF err = "FileNotFoundError"
      THEN raised(CsvFileProcessingError(file_path, "CSV file not found"),
                  files)
      ELSE IF err # "None" \/ files[file_path].kind = "garbage"
      THEN raised(CsvFileProcessingError(file_path,
                    "An error occurred while reading the CSV"), files)
      ELSE returned(List(DictReader(
                      CASE files[file_path].kind = "csv" -> files[file_path].body
                        [] files[file_path].kind = "empty" -> <<>>)), files)

\* csv.DictWriter: the field written for a value; None is written empty
csv_field(value) == IF value.t = "None" THEN "" ELSE str(value)

CsvHandler_write(file_path, data, files, cond) ==
  LET headers == keys(data[1].v)
      err == open_error(file_path, files, "w", cond)
      \* rows DictWriter rejects: no dict, or a key outside the field names
      bad == { i \in DOMAIN data :
                 \/ data[i].t # "dict"
                 \/ \E k \in DOMAIN data[i].v :
                      \A j \in DOMAIN headers : headers[j] # data[i].v[k][1] }
      first_bad == CHOOSE i \in bad : \A j \in bad : i <= j
      line(i) == [j \in DOMAIN headers |->
                    csv_field(get(data[i].v, headers[j], StrV("")))]
      written(n) == <<headers>> \o [i \in 1..n |-> line(i)]
  IN  IF data = <<>>
      THEN raised(ValueError("Input data for CSV writing cannot be empty."),
                  files)
      ELSE IF data[1].t # "dict"
      THEN raised(Exc("AttributeError", <<>>, "has no attribute 'keys'"), files)
      ELSE IF err \in {"PermissionError", "FileNotFoundError"}
      THEN raised(CsvFileProcessingError(file_path,
                    "Could not write to CSV file"), files)
      ELSE IF err # "None"
      THEN raised(CsvFileProcessingError(file_path,
                    "An unexpected error occurred during CSV writing"), files)
      ELSE IF bad # {}
      THEN raised(CsvFileProcessingError(file_path,
                    "An unexpected error occurred during CSV writing"),
                  put(files, file_path, CsvText(written(first_bad - 1))))
      ELSE returned(NoneV, put(files, file_path, CsvText(written(Len(data)))))

(* json_handler.JsonHandler *)
\* json.dump: what the encoder rejects
RECURSIVE Serializable(_)
Serializable(x) ==
  CASE x.t \in {"str", "int", "None"} -> TRUE
    [] x.t = "set" -> FALSE
    [] x.t = "list" -> \A i \in DOMAIN x.v : Serializable(x.v[i])
    [] x.t = "dict" -> \A i \in DOMAIN x.v : Serializable(x.v[i][2])

\* json.dump: the JSON value written for a Python value; the key None is
\* written as the string "null"
RECURSIVE ToJson(_)
ToJson(x) ==
  CASE x.t = "str" -> JsonString(x.v)
    [] x.t = "int" -> JsonNumber(x.v)
    [] x.t = "None" -> JsonNull
    [] x.t = "list" -> JsonArray([i \in DOMAIN x.v |-> ToJson(x.v[i])])
    [] x.t = "dict" ->
         JsonObject([i \in DOMAIN x.v |->
                       <<IF x.v[i][1] = NoneKey THEN "null" ELSE x.v[i][1],
                         ToJson(x.v[i][2])>>])

\* json.load: the Python value of a JSON value
RECURSIVE FromJson(_)
FromJson(y) ==
  CASE y.j = "string" -> StrV(y.v)
    [] y.j = "number" -> IntV(y.v)
    [] y.j = "null" -> NoneV
    [] y.j = "array" -> List([i \in DOMAIN y.v |-> FromJson(y.v[i])])
    [] y.j = "object" ->
         Dict([i \in DOMAIN y.v |-> <<y.v[i][1], FromJson(y.v[i][2])>>])

\* Variant of JsonHandler_read: a file that holds no JSON text yields
\* None instead of an error.
JsonHandler_read_Lenient(file_path, files, cond) ==
  LET err == open_error(file_path, files, "r", cond)
  IN  IF err = "FileNotFoundError"
      THEN raised(FileProcessingError(file_path, "JSON file not found"), files)
      ELSE IF err # "None" \/ files[file_path].kind = "garbage"
      THEN raised(FileProcessingError(file_path,
                    "An error occurred while reading the JSON"), files)
      ELSE IF files[file_path].kind # "json"
      THEN returned(NoneV, files)
      ELSE IF FromJson(files[file_path].body).t # "list"
      THEN raised(FileProcessingError(file_path,
                    "JSON content has wrong structure"), files)
      ELSE returned(FromJson(files[file_path].body), files)

JsonHandler_read(file_path, files, cond) ==
  LET err == open_error(file_path, files, "r", cond)
  IN  IF err = "FileNotFoundError"
      THEN raised(FileProcessingError(file_path, "JSON file not found"), files)
      ELSE IF err # "None" \/ files[file_path].kind = "garbage"
      THEN raised(FileProcessingError(file_path,
                    "An error occurred while reading the JSON"), files)
      ELSE IF files[file_path].kind # "json"
      THEN raised(FileProcessingError(file_path, "Invalid JSON format"), files)
      ELSE IF FromJson(files[file_path].body).t # "list"
      THEN raised(FileProcessingError(file_path,
                    "JSON content has wrong structure"), files)
      ELSE returned(FromJson(files[file_path].body), files)

JsonHandler_write(file_path, data, files, cond) ==
  LET err == open_error(file_path, files, "w", cond)
  IN  IF err \in {"PermissionError", "FileNotFoundError"}
      THEN raised(FileProcessingError(file_path,
                    "Could not write to JSON file"), files)
      ELSE IF err # "None"
      THEN raised(FileProcessingError(file_path,
                    "An unexpected error occurred during JSON writing"), files)
      ELSE IF ~Serializable(List(data))
      THEN raised(FileProcessingError(file_path,
                    "An unexpected error occurred during JSON writing"),
                  put(files, file_path, JsonPartial))
      ELSE returned(NoneV, put(files, file_path, JsonText(ToJson(List(data)))))

(* pdf_handler.PdfHandler, docx_handler.DocxHandler, pptx_handler.PptxHandler *)
\* The text the PDF and Word writers take from a record: its 'content',
\* else its 'text', else the record itself, through str().
text_of(item) ==
  IF item.t = "dict" /\ has_key(item.v, "content")
  THEN str(get(item.v, "content", NoneV))
  ELSE IF item.t = "dict" /\ has_key(item.v, "text")
  THEN str(get(item.v, "text", NoneV))
  ELSE str(item)

\* The texts of the records that are not blank, in order.
text_blocks(data) ==
  SelectSeq([i \in DOMAIN data |-> text_of(data[i])], LAMBDA x : x # "")

\* PyPDF2.PdfReader, docx.Document and pptx.Presentation raise on a file
\* that is no document of their format, an empty file included.
PdfHandler_read(file_path, files, cond) ==
  LET err == open_error(file_path, files, "r", cond)
      pages == files[file_path].body
  IN  IF err = "FileNotFoundError"
      THEN raised(FileProcessingError(file_path, "PDF file not found"), files)
      ELSE IF err # "None" \/ files[file_path].kind # "pdf"
      THEN raised(FileProcessingError(file_path,
                    "An error occurred while reading the PDF"), files)
      ELSE returned(List([i \in DOMAIN pages |->
                            Dict(<<<<"page", IntV(ToString(i))>>,
                                   <<"content", StrV(pages[i])>>,
                                   <<"type", StrV("text")>>>>)]), files)

\* The fallback without reportlab: collects the text and raises.
_write_simple_pdf(file_path, data, files) ==
  raised(FileProcessingError(file_path, "Failed to create PDF"), files)

PdfHandler_write(file_path, data, files, cond) ==
  IF data = <<>>
  THEN raised(ValueError("Input data for PDF writing cannot be empty."), files)
  ELSE IF cond = "nolib"
  THEN _write_simple_pdf(file_path, data, files)
  ELSE IF open_error(file_path, files, "w", cond) # "None"
  THEN raised(FileProcessingError(file_path,
                "An error occurred while writing the PDF"), files)
  ELSE returned(NoneV, put(files, file_path, Document("pdf", text_blocks(data))))

DocxHandler_read(file_path, files, cond) ==
  LET paragraphs == files[file_path].body
  IN  IF \/ open_error(file_path, files, "r", cond) # "None"
         \/ files[file_path].kind # "docx"
      THEN raised(FileProcessingError(file_path,
                    "An error occurred while reading the Word document"), files)
      ELSE returned(List([i \in DOMAIN paragraphs |->
                            Dict(<<<<"type", StrV("paragraph")>>,
                                   <<"number", IntV(ToString(i))>>,
                                   <<"content", StrV(paragraphs[i])>>,
                                   <<"style", StrV("Normal")>>>>)]), files)

DocxHandler_write(file_path, data, files, cond) ==
  IF data = <<>>
  THEN raised(ValueError(
                "Input data for Word document writing cannot be empty."), files)
  ELSE IF open_error(file_path, files, "w", cond) # "None"
  THEN raised(FileProcessingError(file_path,
                "An error occurred while writing the Word document"), files)
  ELSE returned(NoneV, put(files, file_path, Document("docx", text_blocks(data))))

PptxHandler_read(file_path, files, cond) ==
  LET slides == files[file_path].body
  IN  IF \/ open_error(file_path, files, "r", cond) # "None"
         \/ files[file_path].kind # "pptx"
      THEN raised(FileProcessingError(file_path,
                    "An error occurred while reading the PowerPoint presentation"),
                  files)
      ELSE returned(List([i \in DOMAIN slides |->
                            Dict(<<<<"type", StrV("slide")>>,
                                   <<"number", IntV(ToString(i))>>,
                                   <<"content", StrV(slides[i])>>>>)]), files)

\* One slide per record; text_frame.text takes a str only.
slide_text(item) ==
  IF item.t = "dict" /\ has_key(item.v, "content")
  THEN get(item.v, "content", NoneV)
  ELSE IF item.t = "dict" /\ has_key(item.v, "text")
  THEN get(item.v, "text", NoneV)
  ELSE StrV(str(item))

PptxHandler_write(file_path, data, files, cond) ==
  IF data = <<>>
  THEN raised(ValueError(
                "Input data for PowerPoint presentation writing cannot be empty."),
              files)
  ELSE IF \/ \E i \in DOMAIN data :
               data[i].t \notin {"dict", "str"} \/ slide_text(data[i]).t # "str"
          \/ open_error(file_path, files, "w", cond) # "None"
  THEN raised(FileProcessingError(file_path,
                "An error occurred while writing the PowerPoint presentation"),
              files)
  ELSE returned(NoneV,
                put(files, file_path,
                    Document("pptx",
                             [i \in DOMAIN data |-> slide_text(data[i]).v])))

(* azw3_handler.Azw3Handler, mobi_handler.MobiHandler *)
ExtHtml == <<"h", "t", "m", "l">>

\* The chapter text the e-book writers take from a record.
chapter_content(item) ==
  IF item.t # "dict" THEN StrV(str(item))
  ELSE IF /\ get(item.v, "type", NoneV) \in
               {StrV("chapter"), StrV("text"), StrV("paragraph")}
          /\ has_key(item.v, "content")
  THEN get(item.v, "content", NoneV)
  ELSE IF has_key(item.v, "content")
  THEN StrV(str(get(item.v, "content", NoneV)))
  ELSE IF has_key(item.v, "text")
  THEN StrV(str(get(item.v, "text", NoneV)))
  ELSE StrV(str(item))

\* The chapters of the book: the texts that are not blank, or one default
\* chapter.
chapters(data) ==
  LET texts == SelectSeq([i \in DOMAIN data |-> chapter_content(data[i])],
                         LAMBDA x : x.t = "str" /\ x.v # "")
  IN  IF texts = <<>> THEN <<"No content available">>
      ELSE [i \in DOMAIN texts |-> texts[i].v]

\* write of Azw3Handler (format "azw3") and of MobiHandler (format "mobi"):
\* the two methods differ in the format's name only.
ebook_write(format, file_path, data, files, cond) ==
  LET html_file_path ==
        str_replace(file_path, <<".">> \o ExtOf(format), <<".">> \o ExtHtml)
      failed == FileProcessingError(file_path,
                  "An error occurred while writing the file")
  IN  IF data = <<>>
      THEN raised(ValueError("Input data for writing cannot be empty."), files)
      ELSE IF cond = "nolib"
      THEN raised(failed, files)
      ELSE IF \E i \in DOMAIN data :
                chapter_content(data[i]).t \notin {"str", "None"}
      THEN raised(failed, files)
      ELSE IF HasNul(file_path)
      \* subprocess.run raises ValueError; "except ValueError: raise e"
      THEN raised(ValueError("embedded null byte"), files)
      ELSE IF cond = "ok"
      THEN returned(NoneV, put(files, file_path,
                               Document(format, chapters(data))))
      ELSE IF cond = "denied"
      THEN raised(failed, files)
      \* the HTML fallback, then FileProcessingError
      ELSE raised(failed, put(files, html_file_path,
                              Document("html", chapters(data))))

Azw3Handler_write(file_path, data, files, cond) ==
  ebook_write("azw3", file_path, data, files, cond)

MobiHandler_write(file_path, data, files, cond) ==
  ebook_write("mobi", file_path, data, files, cond)

\* What both readers return when ebook-convert made an EPUB of the file.
book_records(blocks) ==
  <<Dict(<<<<"type", StrV("metadata")>>, <<"title", StrV("Unknown")>>,
           <<"author", StrV("Unknown")>>,
           <<"content", StrV("Title: Unknown, Author: Unknown")>>>>)>>
  \o [i \in DOMAIN blocks |->
        Dict(<<<<"type", StrV("chapter")>>, <<"title", StrV("Chapter")>>,
               <<"content", StrV(blocks[i])>>>>)]

\* ebook-convert exits with code 0: it ran and the file is an e-book of
\* the format.
converts(format, file_path, files, cond) ==
  /\ cond = "ok"
  /\ file_path \in DOMAIN files
  /\ files[file_path].kind = format

Azw3Handler_read(file_path, files, cond) ==
  IF cond # "nolib" /\ HasNul(file_path)
  THEN raised(FileProcessingError(file_path,
                "An error occurred while reading the AZW3 file"), files)
  ELSE IF converts("azw3", file_path, files, cond)
  THEN returned(List(book_records(files[file_path].body)), files)
  \* the fallback: os.path.exists(file_path)
  ELSE IF file_path \in DOMAIN files /\ ~HasNul(file_path)
  THEN returned(List(<<Dict(<<<<"type", StrV("info")>>,
                              <<"content", StrV("AZW3 file format detected.")>>,
                              <<"note", StrV("File exists and appears to be a valid AZW3 file")>>,
                              <<"size", IntV("0")>>>>)>>), files)
  ELSE raised(FileProcessingError(file_path,
                "An error occurred while reading the AZW3 file"), files)

MobiHandler_read(file_path, files, cond) ==
  LET note == Dict(<<<<"type", StrV("note")>>,
                     <<"content", StrV("MOBI file detected.")>>>>)
      metadata == Dict(<<<<"type", StrV("metadata")>>,
                         <<"title", StrV("Converted Document")>>,
                         <<"author", StrV("Unknown")>>,
                         <<"content", StrV("Title: Converted Document")>>>>)
  IN  IF cond = "nolib" \/ HasNul(file_path)
      THEN raised(FileProcessingError(file_path,
                    "An error occurred while reading the MOBI file"), files)
      ELSE IF converts("mobi", file_path, files, cond)
      THEN returned(List(book_records(files[file_path].body)), files)
      \* the fallback: open(file_path, 'rb')
      ELSE IF file_path \notin DOMAIN files
      THEN raised(FileProcessingError(file_path, "MOBI file not found"), files)
      ELSE IF cond = "denied"
      THEN raised(FileProcessingError(file_path,
                    "An error occurred while reading the MOBI file"), files)
      ELSE returned(List(IF files[file_path].kind = "html"
                         THEN <<metadata, note>> ELSE <<note>>), files)

\* Every third-party library the plugin modules import is installed and
\* the plugins package is importable.
FullEnv == env.importable /\ env.libs = {"PyPDF2", "docx", "pptx"}

(* Direct calls of the handlers, as the tests and the demo make them. *)
\* handler.read(file_path) and handler.write(file_path, data) of an
\* instance of the handler class of a format
call_read(h, file_path, files, cond) ==
  CASE h = "csv" -> CsvHandler_read(file_path, files, cond)
    [] h = "json" -> JsonHandler_read(file_path, files, cond)
    [] h = "pdf" -> PdfHandler_read(file_path, files, cond)
    [] h = "docx" -> DocxHandler_read(file_path, files, cond)
    [] h = "pptx" -> PptxHandler_read(file_path, files, cond)
    [] h = "azw3" -> Azw3Handler_read(file_path, files, cond)
    [] h = "mobi" -> MobiHandler_read(file_path, files, cond)

call_write(h, file_path, data, files, cond) ==
  CASE h = "csv" -> CsvHandler_write(file_path, data, files, cond)
    [] h = "json" -> JsonHandler_write(file_path, data, files, cond)
    [] h = "pdf" -> PdfHandler_write(file_path, data, files, cond)
    [] h = "docx" -> DocxHandler_write(file_path, data, files, cond)
    [] h = "pptx" -> PptxHandler_write(file_path, data, files, cond)
    [] h = "azw3" -> Azw3Handler_write(file_path, data, files, cond)
    [] h = "mobi" -> MobiHandler_write(file_path, data, files, cond)

\* The conditions that make a difference to a handler's operation.
CondsOf(h, op) ==
  IF h \in {"azw3", "mobi"}
  THEN {"ok", "denied", "nolib", "notool", "toolfails", "timeout"}
  ELSE IF h = "pdf" /\ op = "write" THEN {"ok", "denied", "nolib"}
  ELSE {"ok", "denied"}

\* The paths the handlers are called with.
ReadPaths(h) ==
  { PathOf(st, ExtOf(h)) :
      st \in {StemA, StemEmpty, StemBad, StemMissing, StemOut, StemNul} }
  \cup (IF h = "json"
        THEN {PathOf(StemObj, ExtOf(h)), PathOf(StemMixed, ExtOf(h))}
        ELSE {})

\* A destination whose extension is not lower-case, as in 'book.AZW3'.
StemBook == <<"b", "o", "o", "k">>
UpperExt(h) ==
  CASE h = "azw3" -> <<"A", "Z", "W", "3">>
    [] h = "mobi" -> <<"M", "O", "B", "I">>

WritePaths(h) ==
  { PathOf(st, ExtOf(h)) : st \in {StemOut, StemA, StemNul} }
  \cup (IF h \in {"azw3", "mobi"} THEN {PathOf(StemBook, UpperExt(h))}
        ELSE {})

\* The record sequences the writers are called with.
RecordsSample == DictReader(SampleRows)
RecordsTyped == <<Dict(<<<<"id", IntV("1")>>, <<"data", NoneV>>>>)>>
RecordsExtraKey ==
  <<Dict(<<<<"a", StrV("1")>>>>),
    Dict(<<<<"a", StrV("2")>>, <<"b", StrV("3")>>>>)>>
RecordsSet == <<Dict(<<<<"content", SetObj>>>>)>>
RecordsText ==
  <<Dict(<<<<"type", StrV("text")>>, <<"content", StrV("Hello")>>>>),
    Dict(<<<<"type", StrV("text")>>, <<"content", StrV("")>>>>)>>

RecordsNumber == <<Dict(<<<<"content", IntV("5")>>>>)>>

DataSets ==
  {<<>>, RecordsSample, RecordsTyped, RecordsExtraKey, RecordsSet, RecordsText,
   RecordsNumber}

HandlerRead(h, file_path, cond) ==
  /\ hcalls < MaxHandlerCalls
  /\ hcalls' = hcalls + 1
  /\ LET r == call_read(h, file_path, fs, cond)
     IN  /\ fs' = r.files
         /\ hcall' = [handler |-> h, op |-> "read", path |-> file_path,
                      data |-> <<>>, cond |-> cond, before |-> fs,
                      ok |-> r.ok, value |-> r.value, exc |-> r.exc]
  /\ UNCHANGED <<cpc, input_path, output_path, input_format, output_format,
                 reader_handler, writer_handler, intermediate_data, cresult,
                 clog, cconverts, cdest, cli>>
  /\ UNCHANGED regvars

HandlerWrite(h, file_path, data, cond) ==
  /\ hcalls < MaxHandlerCalls
  /\ hcalls' = hcalls + 1
  /\ LET r == call_write(h, file_path, data, fs, cond)
     IN  /\ fs' = r.files
         /\ hcall' = [handler |-> h, op |-> "write", path |-> file_path,
                      data |-> data, cond |-> cond, before |-> fs,
                      ok |-> r.ok, value |-> r.value, exc |-> r.exc]
  /\ UNCHANGED <<cpc, input_path, output_path, input_format, output_format,
                 reader_handler, writer_handler, intermediate_data, cresult,
                 clog, cconverts, cdest, cli>>
  /\ UNCHANGED regvars

NextHandlers ==
  \E h \in HandlerNames :
    \/ \E file_path \in ReadPaths(h), cond \in CondsOf(h, "read") :
         HandlerRead(h, file_path, cond)
    \/ \E file_path \in WritePaths(h), data \in DataSets,
          cond \in CondsOf(h, "write") :
         HandlerWrite(h, file_path, data, cond)

\* The handler classes exist when their modules can be imported.
InitHandlers == Init /\ FullEnv

SpecHandlers == InitHandlers /\ [][NextHandlers]_vars

ConcurrentStep(c) ==
  \/ \E src \in SourcePaths, dst \in DestinationPaths :
       FirstConvertCall(c, src, dst)
  \/ DeriveFormats(c)
  \/ ResolveReader(c)
  \/ ResolveWriter(c)
  \/ Read(c)
  \/ Write(c)

NextConcurrent == \E c \in Callers : ConcurrentStep(c)

SpecConcurrent == Init /\ [][NextConcurrent]_vars

(***************************************************************************)
(* Properties of convert_file (SpecConvert).                               *)
(***************************************************************************)
Ended(c) == cresult[c].kind # "none"

\* C1: with both formats non-empty, every failure of handler resolution,
\* read or write leaves convert_file as a ConversionError that names the
\* source and the destination format and carries the original error as its
\* cause; no other error type escapes.
C1_FailuresBecomeConversionError ==
  \A c \in Callers :
    (cresult[c].kind = "raised" /\ input_format[c] # <<>>
       /\ output_format[c] # <<>>)
    => /\ cresult[c].exc.type = "ConversionError"
       /\ cresult[c].exc.args = <<input_format[c], output_format[c]>>
       /\ cresult[c].exc.cause # "None"

\* C2: when the source or the destination path has an empty or missing
\* extension, convert_file fails with a ConversionError, and it has then
\* executed nothing but the format derivation: no handler was resolved and
\* no file was read or written.
C2_EmptyFormatFailsFirst ==
  \A c \in Callers :
    (Ended(c) /\ (FormatOf(input_path[c]) = <<>>
                    \/ FormatOf(output_path[c]) = <<>>))
    => /\ cresult[c].kind = "raised"
       /\ cresult[c].exc.type = "ConversionError"
       /\ clog[c] = <<"derive">>
       /\ reader_handler[c] = None /\ writer_handler[c] = None

ConvertSteps == <<"derive", "resolve_reader", "resolve_writer", "read", "write">>

\* C3: one convert_file call executes its steps in the order derive
\* formats, resolve reader, resolve writer, read, write, each at most once:
\* a step is only ever added to a call that has not ended, it is the next
\* step of that order, read is added only when both handlers are resolved
\* and write only when read has returned its records.
C3_StrictSequence ==
  [][\A c \in Callers :
       clog'[c] # clog[c] =>
         \/ clog'[c] = <<>> /\ cconverts'[c] = cconverts[c] + 1
         \/ /\ ~Ended(c)
            /\ cconverts'[c] = cconverts[c]
            /\ clog'[c] = SubSeq(ConvertSteps, 1, Len(clog[c]) + 1)
            /\ (Len(clog'[c]) = 4 =>
                  reader_handler[c] # None /\ writer_handler[c] # None)
            /\ (Len(clog'[c]) = 5 => intermediate_data[c] # None)]_vars

\* A call that ran all five steps and returned, after an earlier call of
\* the same caller.
C3_Witness ==
  \E c \in Callers :
    cresult[c].kind = "returned" /\ clog[c] = ConvertSteps /\ cconverts[c] = 2

\* C4: handler resolution inside convert_file succeeds exactly when the
\* registry of handler_factory holds a handler for the format, and the
\* handler convert_file uses is an instance of the registered type.
C4_ResolvesThroughRegistry ==
  \A c \in Callers :
    Len(clog[c]) >= 2 =>
      /\ reader_handler[c] # None <=> input_format[c] \in DOMAIN Discover(env)
      /\ reader_handler[c] # None =>
           reader_handler[c].cls = Discover(env)[input_format[c]]

\* C5: convert_file("missing.csv", "out.json") with no file missing.csv
\* never returns normally: it fails with a ConversionError whose cause is a
\* FileProcessingError.
C5_MissingSourceFails ==
  \A c \in Callers :
    (Ended(c) /\ input_path[c] = PathMissingCsv
       /\ output_path[c] = PathOutJson /\ PathMissingCsv \notin DOMAIN fs)
    => /\ cresult[c].kind = "raised"
       /\ cresult[c].exc.type = "ConversionError"
       /\ cresult[c].exc.cause = "FileProcessingError"

(***************************************************************************)
(* Properties of the registry, one thread (SpecSeq).                       *)
(***************************************************************************)
\* The classes of the plugin collection that satisfy the handler contract.
HandlerTypes ==
  { Plugins[m].classes[k].id :
      <<m, k>> \in { mk \in (1..Len(Plugins)) \X (1..5) :
                       /\ mk[2] <= Len(Plugins[mk[1]].classes)
                       /\ Plugins[mk[1]].classes[mk[2]].rel = "sub" } }

\* C6: a get_handler(f) call that has returned or raised: if lower-cased f
\* is registered, it returned an instance of the registered type, which is
\* a handler type; if not, it raised UnsupportedFormatError carrying f and
\* nothing else.  The registry it looked in is the complete one.
C6_GetHandlerContract ==
  \A t \in Threads :
    gresult[t].kind # "none" =>
      /\ _HANDLERS = Discover(env)
      /\ IF lower(gext[t]) \in DOMAIN _HANDLERS
         THEN /\ gresult[t].kind = "instance"
              /\ gresult[t].cls = _HANDLERS[lower(gext[t])]
              /\ gresult[t].cls \in HandlerTypes
         ELSE gresult[t] = [kind |-> "UnsupportedFormatError",
                            format |-> gext[t]]

\* get_handler("JSON") returned a JsonHandler; in another state
\* get_handler("xml") raised.
C6_Witness ==
  /\ gext[MainThread] = <<"J", "S", "O", "N">>
  /\ gresult[MainThread].kind = "instance"
  /\ gresult[MainThread].cls = "JsonHandler"

\* C7: whatever the first pass registered, also nothing at all, the
\* discovery pass runs at most once in a sequence of get_handler calls.
C7_DiscoveryAtMostOnce == scans <= 1

\* C8: once a discovery pass has run to its end, no step of any get_handler
\* call changes the registration mapping.
C8_RegistryFrozen == [][discovered => _HANDLERS' = _HANDLERS]_vars

\* A second get_handler call has failed after the pass that filled the
\* registry.
C8_Witness ==
  /\ discovered
  /\ Populated(_HANDLERS)
  /\ gcalls[MainThread] = 2
  /\ gresult[MainThread].kind = "UnsupportedFormatError"

(***************************************************************************)
(* Properties of the registry, concurrent first use (Spec).                *)
(***************************************************************************)
\* C9: at most one thread is ever inside the discovery pass, and at most
\* one thread ever writes to the registration mapping.
C9_DiscoveryGuarded ==
  /\ Cardinality({t \in Threads : gpc[t] = "scan"}) <= 1
  /\ Cardinality(writers) <= 1

\* C10: no get_handler call raises UnsupportedFormatError for a format that
\* the discovery pass registers.
C10_LookupSeesFinalRegistry ==
  \A t \in Threads :
    gresult[t].kind = "UnsupportedFormatError" =>
      lower(gresult[t].format) \notin DOMAIN Discover(env)

(***************************************************************************)
(* Properties of the registry over the shipped plugin collection           *)
(* (SpecSeq), as the tests of the repository state them.                   *)
(***************************************************************************)
\* C16: with the whole shipped collection importable, get_handler returns
\* a handler instance for each of 'pdf', 'docx', 'pptx' and 'ppsx'.
C16_DocumentHandlersResolve ==
  \A t \in Threads :
    (FullEnv /\ gresult[t].kind # "none"
       /\ gext[t] \in {ExtPdf, ExtDocx, ExtPptx, ExtPpsx})
    => gresult[t].kind = "instance"

\* C17: with the shipped collection importable, get_handler('azw3') and
\* get_handler('mobi') each raise UnsupportedFormatError.
C17_EbookHandlersUnsupported ==
  \A t \in Threads :
    (env.importable /\ gresult[t].kind # "none"
       /\ gext[t] \in {ExtAzw3, ExtMobi})
    => gresult[t].kind = "UnsupportedFormatError"

(***************************************************************************)
(* Properties of concurrent convert_file calls (SpecConcurrent).           *)
(***************************************************************************)
\* C11: two convert_file calls on different file pairs that ran
\* concurrently ended, each, as they end when the two calls run one after
\* the other in some order, and left the files that order leaves.
C11_ConcurrentAsSequential ==
  (/\ \A c \in Callers : Ended(c) /\ cpc[c] = "idle"
   /\ <<input_path["c1"], output_path["c1"]>>
        # <<input_path["c2"], output_path["c2"]>>)
  => \E o \in {<<"c1", "c2">>, <<"c2", "c1">>} :
       LET r1 == convert_file(input_path[o[1]], output_path[o[1]], InitialFiles)
           r2 == convert_file(input_path[o[2]], output_path[o[2]], r1.files)
       IN  /\ cresult[o[1]] = r1.outcome
           /\ cresult[o[2]] = r2.outcome
           /\ fs = r2.files

\* Both calls have ended, one returned and the other raised.
C11_Witness ==
  /\ cresult["c1"].kind = "returned" /\ cresult["c2"].kind = "raised"
  /\ cpc["c1"] = "idle" /\ cpc["c2"] = "idle"
  /\ <<input_path["c1"], output_path["c1"]>>
       # <<input_path["c2"], output_path["c2"]>>

(***************************************************************************)
(* Properties of the handlers called directly (SpecHandlers).              *)
(***************************************************************************)
IsFileProcessingError(e) ==
  e.type \in {"FileProcessingError", "csv_handler.FileProcessingError"}

\* C12: a write called with an empty record sequence fails, for every
\* handler, with the ValueError that says the input cannot be empty, and
\* leaves the file system as it was.
C12_EmptyWriteRefused ==
  (hcall.op = "write" /\ hcall.data = <<>>)
  => /\ ~hcall.ok
     /\ hcall.exc.type = "ValueError"
     /\ fs = hcall.before

\* The file is no file of the handler's format: garbage, or JSON text
\* whose root is no array.
StructurallyInvalid(h, c) ==
  \/ c.kind = "garbage"
  \/ h = "json" /\ c.kind = "json" /\ c.body.j # "array"

\* C13: a read of a path that is missing, that cannot be opened, or whose
\* file is structurally invalid for the handler's format fails with a
\* FileProcessingError that carries the path, for every handler.
C13_BadReadFailsWithFileError ==
  (/\ hcall.op = "read"
   /\ \/ hcall.path \notin DOMAIN hcall.before
      \/ hcall.cond = "denied"
      \/ StructurallyInvalid(hcall.handler, hcall.before[hcall.path]))
  => /\ ~hcall.ok
     /\ IsFileProcessingError(hcall.exc)
     /\ hcall.exc.args = <<hcall.path>>

\* A read of an existing, readable, empty file has been made.
ReadOfEmptyFile ==
  /\ hcall.op = "read"
  /\ hcall.path \in DOMAIN hcall.before
  /\ hcall.before[hcall.path] = EmptyFile
  /\ hcall.cond # "denied"

\* C14, as stated: a read that returns returns a sequence, never None, and
\* the read of an existing empty file returns the empty sequence, for
\* every handler.
C14_EmptyFileReadsEmpty ==
  /\ (hcall.op = "read" /\ hcall.ok) => hcall.value.t = "list"
  /\ ReadOfEmptyFile => hcall.ok /\ hcall.value = List(<<>>)

\* C14, amended: a read that returns returns a sequence, never None.  The
\* read of an existing empty file returns the empty sequence for the CSV
\* handler only: the JSON, PDF, DOCX and PPTX handlers fail with a
\* FileProcessingError (an empty file is no file of their format), and the
\* AZW3 and MOBI handlers fail with a FileProcessingError or return one
\* placeholder record.
C14_EmptyFileReadsEmptyForCsv ==
  /\ (hcall.op = "read" /\ hcall.ok) => hcall.value.t = "list"
  /\ ReadOfEmptyFile =>
       CASE hcall.handler = "csv" -> hcall.ok /\ hcall.value = List(<<>>)
         [] hcall.handler \in {"json", "pdf", "docx", "pptx"} ->
              ~hcall.ok /\ IsFileProcessingError(hcall.exc)
         [] hcall.handler \in {"azw3", "mobi"} ->
              \/ ~hcall.ok /\ IsFileProcessingError(hcall.exc)
              \/ hcall.ok /\ Len(hcall.value.v) = 1

\* The JSON handler has read an existing empty file and failed.
C14_Witness ==
  ReadOfEmptyFile /\ hcall.handler = "json" /\ hcall.cond = "ok" /\ ~hcall.ok

\* C15: a write of a non-empty record sequence that does not produce the
\* destination file fails with a FileProcessingError that carries the
\* destination path, and with no other exception, for every handler.
C15_FailedWriteIsFileError ==
  (hcall.op = "write" /\ hcall.data # <<>> /\ ~hcall.ok)
  => /\ IsFileProcessingError(hcall.exc)
     /\ hcall.exc.args = <<hcall.path>>

(***************************************************************************)
(* Properties of the command-line runs (SpecCli).                          *)
(***************************************************************************)
\* C18: a command-line run exits with code 0 exactly when convert_file
\* returned; when convert_file raised, whatever the exception, the run
\* exits with a non-zero code after a message on the error stream, and no
\* exception that convert_file raised leaves main.
C18_ExitCodeTellsOutcome ==
  \A c \in Callers :
    cli[c] # NotExited =>
      /\ cli[c].code = 0 <=> cresult[c].kind = "returned"
      /\ cresult[c].kind = "raised" =>
           /\ cli[c].code # 0
           /\ cli[c].stream = "stderr"
           /\ cli[c].message # ""
           /\ cli[c].escaped = "None"

\* A run whose convert_file raised has exited with code 1, after an
\* earlier run of the same caller.
C18_Witness ==
  \E c \in Callers :
    /\ cli[c] # NotExited /\ cli[c].code = 1
    /\ cresult[c].kind = "raised" /\ cconverts[c] = 2

(***************************************************************************)
(* Properties of what convert_file leaves at the destination (SpecConvert).*)
(***************************************************************************)
\* The JSON array the CSV rows under the header id,data stand for: one
\* object per data row, in row order, with the keys id and data and the
\* fields as strings.
ExpectedJson(rows) ==
  JsonArray([i \in 1..(Len(rows) - 1) |->
               JsonObject(<<<<"id", JsonString(rows[i + 1][1])>>,
                            <<"data", JsonString(rows[i + 1][2])>>>>)])

\* C19: when convert_file was called with a CSV file whose header is
\* id,data and a JSON destination, the call returns and the destination
\* holds the JSON array of the file's data rows.
C19_CsvToJson ==
  \A c \in Callers :
    (/\ Ended(c) /\ cpc[c] = "idle"
     /\ FormatOf(input_path[c]) = <<"c", "s", "v">>
     /\ FormatOf(output_path[c]) = <<"j", "s", "o", "n">>
     /\ content(fs, input_path[c]).kind = "csv"
     /\ content(fs, input_path[c]).body[1] = <<"id", "data">>)
    => /\ cresult[c].kind = "returned"
       /\ content(fs, output_path[c])
            = JsonText(ExpectedJson(content(fs, input_path[c]).body))

\* C20: two returned convert_file calls of one caller with the same CSV or
\* JSON paths and the same source content each left the destination
\* written, and with the same content.
C20_SecondCallWritesTheSame ==
  \A c \in Callers :
    \A i, j \in DOMAIN cdest[c] :
      (/\ i < j
       /\ cdest[c][i].src = cdest[c][j].src
       /\ cdest[c][i].dst = cdest[c][j].dst
       /\ cdest[c][i].source = cdest[c][j].source
       /\ FormatOf(cdest[c][i].src) \in {<<"c", "s", "v">>, <<"j", "s", "o", "n">>}
       /\ FormatOf(cdest[c][i].dst) \in {<<"c", "s", "v">>, <<"j", "s", "o", "n">>})
      => /\ cdest[c][j].written # Absent
         /\ cdest[c][i].written = cdest[c][j].written

(***************************************************************************)
(* Properties of the handlers' write followed by their read (SpecHandlers).*)
(***************************************************************************)
\* The recognized fields of a record.
RecognizedFields == {"content", "text"}

\* C21: after a successful write of a non-empty record sequence by the CSV
\* or the JSON handler, the same handler's read of the written file returns
\* a list of the same length whose content and text fields equal, record by
\* record, the written ones.
C21_RoundTripVerbatim ==
  (/\ hcall.op = "write" /\ hcall.ok
   /\ hcall.handler \in {"csv", "json"}
   /\ hcall.data # <<>>)
  => LET r == call_read(hcall.handler, hcall.path, fs, "ok")
     IN  /\ r.ok
         /\ r.value.t = "list"
         /\ Len(r.value.v) = Len(hcall.data)
         /\ \A i \in DOMAIN hcall.data :
              \A k \in RecognizedFields :
                has_key(hcall.data[i].v, k)
                => /\ r.value.v[i].t = "dict"
                   /\ has_key(r.value.v[i].v, k)
                   /\ get(r.value.v[i].v, k, NoneV)
                        = get(hcall.data[i].v, k, NoneV)

\* C22: the value a successful read of a handler returned is a list whose
\* entries are all dicts with string keys.
C22_ReadReturnsListOfMappings ==
  (hcall.op = "read" /\ hcall.ok)
  => /\ hcall.value.t = "list"
     /\ \A i \in DOMAIN hcall.value.v :
          /\ hcall.value.v[i].t = "dict"
          /\ \A k \in DOMAIN hcall.value.v[i].v :
               hcall.value.v[i].v[k][1] # NoneKey

(***************************************************************************)
(* Properties of discovery over the shipped plugin collection (SpecSeq).   *)
(***************************************************************************)
\* A class name without its trailing "Handler", lower-cased.
IdentifierOf(name) ==
  IF Len(name) >= Len(HandlerWord)
     /\ SubSeq(name, Len(name) - Len(HandlerWord) + 1, Len(name)) = HandlerWord
  THEN lower(SubSeq(name, 1, Len(name) - Len(HandlerWord)))
  ELSE lower(name)

\* The classes of the collection that have the contract's read and write
\* and are not the contract type.
ContractClasses ==
  {Azw3Handler, CsvHandler, DocxHandler, JsonHandler, MobiHandler, PdfHandler,
   PptxHandler}

\* C23: after a discovery pass over the whole importable collection every
\* class that satisfies the handler contract is registered under its name
\* without the trailing "Handler", lower-cased: CsvHandler under 'csv',
\* JsonHandler under 'json'; FileHandler is no registered value.
C23_DiscoveryRegistersContractTypes ==
  (FullEnv /\ discovered)
  => /\ \A cls \in ContractClasses :
          /\ IdentifierOf(cls.name) \in DOMAIN _HANDLERS
          /\ _HANDLERS[IdentifierOf(cls.name)] = cls.id
     /\ <<"c", "s", "v">> \in DOMAIN _HANDLERS
     /\ <<"j", "s", "o", "n">> \in DOMAIN _HANDLERS
     /\ \A f \in DOMAIN _HANDLERS :
          _HANDLERS[f] \notin {ClsFileHandler.id, ClsLocalFileHandler.id}

\* C24: when a discovery pass has run to its end, every handler class of
\* every module whose import succeeded is registered, whichever other
\* modules failed to import, and no get_handler call has ended in anything
\* but an instance or UnsupportedFormatError.
C24_BrokenUnitSkipped ==
  /\ discovered =>
       \A m \in DOMAIN Plugins :
         ImportOK(env, Plugins[m]) =>
           \A k \in DOMAIN Plugins[m].classes :
             LET cls == Plugins[m].classes[k]
             IN  cls.rel = "sub" =>
                   /\ format_name(cls.name) \in DOMAIN _HANDLERS
                   /\ _HANDLERS[format_name(cls.name)] = cls.id
  /\ \A t \in Threads :
       gresult[t].kind \in {"none", "instance", "UnsupportedFormatError"}

\* With no third-party library installed the imports of docx_handler,
\* pdf_handler and pptx_handler fail; get_handler('json') still returned a
\* JsonHandler, whose module comes after docx_handler.
C24_Witness ==
  /\ env.importable /\ env.libs = {}
  /\ discovered
  /\ \E m \in DOMAIN Plugins : ~ImportOK(env, Plugins[m])
  /\ gresult[MainThread].kind = "instance"
  /\ gresult[MainThread].cls = JsonHandler.id

(***************************************************************************)
(* Properties of the e-book handlers and their external tool               *)
(* (SpecHandlers).                                                         *)
(***************************************************************************)
\* The last direct call got as far as running ebook-convert.
ToolInvoked ==
  /\ hcall.handler \in {"azw3", "mobi"}
  /\ hcall.cond \in {"ok", "toolfails", "timeout"}
  /\ ~HasNul(hcall.path)
  /\ hcall.op = "write" =>
       /\ hcall.data # <<>>
       /\ \A i \in DOMAIN hcall.data :
            chapter_content(hcall.data[i]).t \in {"str", "None"}

\* C25: a read or write of the AZW3 or MOBI handler whose ebook-convert run
\* timed out has raised a file-processing error.
C25_TimeoutFails ==
  (ToolInvoked /\ hcall.cond = "timeout")
  => /\ ~hcall.ok
     /\ IsFileProcessingError(hcall.exc)

(***************************************************************************)
(* Properties of the instances get_handler returns (Spec).                 *)
(***************************************************************************)
\* C26: the instance a get_handler call returns, to a thread or as the
\* reader or the writer of a convert call, is none of the instances that
\* any earlier resolution has returned.
C26_FreshInstance ==
  [][/\ \A t \in Threads :
          (gpc[t] = "lookup" /\ gresult'[t].kind = "instance")
          => gresult'[t].obj \notin issued
     /\ \A c \in Callers :
          /\ (cpc[c] = "resolve_reader" /\ reader_handler'[c] # None)
             => reader_handler'[c].obj \notin issued
          /\ (cpc[c] = "resolve_writer" /\ writer_handler'[c] # None)
             => writer_handler'[c].obj \notin issued]_vars

\* Two threads hold handlers of the same class, both resolved from 'json',
\* one of them in the thread's second call.
C26_Witness ==
  /\ \A t \in Threads :
       /\ gresult[t].kind = "instance"
       /\ gresult[t].cls = JsonHandler.id
  /\ gcalls[MainThread] = 2
  /\ Cardinality(issued) >= 3

(***************************************************************************)
(* Properties of the data convert_file moves (SpecConvert).                *)
(***************************************************************************)
\* C27: a convert_file call that returned made one write call, and the
\* records it passed to it are the ones its reader's read returned; a call
\* that has not read yet holds no records of an earlier call.
C27_DataPassedUnchanged ==
  \A c \in Callers :
    /\ (Ended(c) /\ cresult[c].kind = "returned")
       => /\ cdest[c] # <<>>
          /\ cdest[c][Len(cdest[c])].passed
               = read(reader_handler[c], input_path[c], fs).value
          /\ Cardinality({i \in DOMAIN clog[c] : clog[c][i] = "write"}) = 1
    /\ cpc[c] \in {"derive", "resolve_reader", "resolve_writer", "read"}
       => intermediate_data[c] = None

\* A second convert_file call has returned.
C27_Witness ==
  \E c \in Callers :
    /\ cresult[c].kind = "returned"
    /\ cpc[c] = "idle"
    /\ Len(cdest[c]) = 2
    /\ cdest[c][2].passed = SampleData

\* C28: when a convert_file call has ended and a format of its paths is
\* empty, the exception that left the call is the ConversionError the
\* format check raised: it carries the check's message and was not raised
\* while another exception was being handled.
C28_FormatErrorNotRewrapped ==
  \A c \in Callers :
    (Ended(c) /\ (FormatOf(input_path[c]) = <<>>
                    \/ FormatOf(output_path[c]) = <<>>))
    => /\ cresult[c].kind = "raised"
       /\ cresult[c].exc.type = "ConversionError"
       /\ cresult[c].exc.msg = "Could not determine file formats from paths."
       /\ cresult[c].exc.context = "None"

\* The last direct call was a write of an e-book handler that got as far
\* as ebook-convert and found it missing, failing or running too long.
ToolLetDown ==
  /\ hcall.op = "write"
  /\ hcall.handler \in {"azw3", "mobi"}
  /\ hcall.cond \in {"notool", "toolfails", "timeout"}
  /\ ~HasNul(hcall.path)
  /\ hcall.data # <<>>
  /\ \A i \in DOMAIN hcall.data :
       chapter_content(hcall.data[i]).t \in {"str", "None"}

\* C29: a write of the AZW3 or the MOBI handler that ebook-convert let down
\* has raised a file-processing error and left the destination path as it
\* was, absent or with its old content, whatever the case of the path's
\* extension; its HTML fallback is a file at another path.
C29_FallbackLeavesDestination ==
  ToolLetDown
  => /\ ~hcall.ok
     /\ IsFileProcessingError(hcall.exc)
     /\ FormatOf(hcall.path) = ExtOf(hcall.handler)
     /\ content(fs, hcall.path) = content(hcall.before, hcall.path)
     /\ \E q \in DOMAIN fs :
          q # hcall.path /\ fs[q].kind = "html"

(***************************************************************************)
(* Properties of the CSV writer (SpecHandlers).                            *)
(***************************************************************************)
\* The last direct call was a CSV write, to a path that can be opened, of
\* records of which a later one has a key the first one has not.
LaterRecordHasNewKey ==
  /\ hcall.op = "write" /\ hcall.handler = "csv"
  /\ hcall.cond = "ok" /\ ~HasNul(hcall.path)
  /\ hcall.data # <<>>
  /\ \A i \in DOMAIN hcall.data : hcall.data[i].t = "dict"
  /\ \E i \in DOMAIN hcall.data :
       \E k \in DOMAIN hcall.data[i].v :
         ~has_key(hcall.data[1].v, hcall.data[i].v[k][1])

\* C30: a CSV write of records of which a later one has a key outside the
\* header, the first record's keys, has raised a file-processing error, and
\* the destination does not hold the header and the rows before that
\* record: it is as it was before the call, or empty.
C30_NoPartialCsv ==
  LaterRecordHasNewKey
  => /\ ~hcall.ok
     /\ IsFileProcessingError(hcall.exc)
     /\ \/ content(fs, hcall.path) = content(hcall.before, hcall.path)
        \/ content(fs, hcall.path) = EmptyFile

====
